---------------------------- MODULE Spec2Model ----------------------------
(***************************************************************************)
(* dmenu_desktop.py: scan DIRS for .desktop files, show their names in     *)
(* dmenu, exec the chosen entry (or the typed command line); the catalog   *)
(* is cached in CACHE_FILE and the cache is checked against directory      *)
(* timestamps.                                                             *)
(*                                                                         *)
(* Strings the program indexes, slices, compares or rewrites are sequences *)
(* of one-character strings; strings it only passes along are TLA+ strings.*)
(***************************************************************************)
EXTENDS Naturals, Sequences, FiniteSets, TLC

VARIABLES
    files,         \* the descriptor files on disk: records [dir, base, content]
    dirExists,     \* dirExists[d]: DIRS[d] is a directory on disk
    dirMtime,      \* os.path.getmtime(DIRS[d])
    cache,         \* CACHE_FILE: [exists, mtime, data]
    now,           \* the file system clock, in timestamp units
    pc,            \* pc[p]: where invocation p of the script stands
    valid,         \* valid[p]: what is_valid_cache returned to invocation p
    results_list,  \* results_list[p]: the catalog of invocation p
    dmenu,         \* dmenu[p]: the selector child: [stdin, closed, exited, stdout]
    selection,     \* selection[p]: dmenu.stdout.read()
    application,   \* application[p]: <<>> (unset) or <<app_data>>
    proc           \* proc[p]: [cwd, argv, status, error] of the process

vars == <<files, dirExists, dirMtime, cache, now, pc, valid, results_list,
          dmenu, selection, application, proc>>

-----------------------------------------------------------------------------
(* Bounds of the model *)

\* descriptor files on disk at most
MaxFiles == 3
\* the clock runs from 0 to MaxTime
MaxTime == 2
\* typed selections and Exec strings drawn for the launcher: at most this long
MaxLen == 4
\* text typed into dmenu: at most this long
MaxTyped == 2

-----------------------------------------------------------------------------
(* Characters and byte strings *)

UpperCase == <<"A","B","C","D","E","F","G","H","I","J","K","L","M",
               "N","O","P","Q","R","S","T","U","V","W","X","Y","Z">>
LowerCase == <<"a","b","c","d","e","f","g","h","i","j","k","l","m",
               "n","o","p","q","r","s","t","u","v","w","x","y","z">>

Range(s) == {s[i] : i \in DOMAIN s}

IndexIn(s, c) == CHOOSE i \in DOMAIN s : s[i] = c

IsUpper(c) == c \in Range(UpperCase)
IsLower(c) == c \in Range(LowerCase)

\* the class [a-zA-Z] of the regular expression
IsAsciiLetter(c) == IsUpper(c) \/ IsLower(c)

\* str.strip() with no argument trims white space
IsSpace(c) == c \in {" ", "\n", "\t"}

\* the byte value of a character, which bytes comparison goes by
Ord(c) ==
    CASE c = "\t" -> 9
      [] c = "\n" -> 10
      [] c = " " -> 32
      [] c = "%" -> 37
      [] c = "-" -> 45
      [] c = "." -> 46
      [] c = "/" -> 47
      [] c = "1" -> 49
      [] IsUpper(c) -> 64 + IndexIn(UpperCase, c)
      [] IsLower(c) -> 96 + IndexIn(LowerCase, c)

\* str.lower() on one character
ToLower(c) == IF IsUpper(c) THEN LowerCase[IndexIn(UpperCase, c)] ELSE c

\* str.lower()
Lower(s) == [i \in DOMAIN s |-> ToLower(s[i])]

\* a < b on bytes objects: lexicographic by byte value, a proper prefix first
BytesLess(a, b) ==
    \E i \in 1..(Len(b)) :
        /\ i <= Len(a) + 1
        /\ \A j \in 1..(i - 1) : a[j] = b[j]
        /\ \/ i = Len(a) + 1
           \/ Ord(a[i]) < Ord(b[i])

\* s.split("/")[-1]: what follows the last slash
LastComponent(s) ==
    LET slashes == {i \in DOMAIN s : s[i] = "/"}
        last == IF slashes = {} THEN 0
                ELSE CHOOSE i \in slashes : \A j \in slashes : j <= i
    IN SubSeq(s, last + 1, Len(s))

\* s[0:-8]: all but the last eight characters (nothing of a shorter string)
DropLast8(s) == IF Len(s) > 8 THEN SubSeq(s, 1, Len(s) - 8) ELSE <<>>

\* s.strip()
Strip(s) ==
    LET keep == {i \in DOMAIN s : ~IsSpace(s[i])}
    IN IF keep = {} THEN <<>>
       ELSE SubSeq(s, CHOOSE i \in keep : \A j \in keep : i <= j,
                      CHOOSE i \in keep : \A j \in keep : j <= i)

EndsWith(s, t) ==
    /\ Len(s) >= Len(t)
    /\ SubSeq(s, Len(s) - Len(t) + 1, Len(s)) = t

-----------------------------------------------------------------------------
(* Configuration *)

TERMINAL == "/usr/bin/urxvt"

\* os.environ["HOME"]
HOME_DIR == <<"/", "h">>

CACHE_FILE == HOME_DIR \o <<"/", ".", "c">>

DIRS == << HOME_DIR \o <<"/", "b", "/">>, <<"/", "u", "/">> >>

Dirs == DOMAIN DIRS

Procs == {1, 2}

-----------------------------------------------------------------------------
(* The descriptor files the environment may put on disk *)

Desktop == <<".", "d", "e", "s", "k", "t", "o", "p">>

ExecVi == <<"v", "i">>
ExecViF == <<"v", "i", " ", "%", "f">>
ExecEd == <<"e", "d", " ", "%", "U", " ", "-">>
OptDir == <<"/", "o">>

Ini(fields) == [kind |-> "ini", fields |-> fields]

AppPlain == Ini([Type |-> "Application", Exec |-> ExecVi])
AppTerminal == Ini([Type |-> "Application", Exec |-> ExecViF,
                    Terminal |-> "true", Path |-> OptDir])
AppShown == Ini([Type |-> "Application", Exec |-> ExecEd, NoDisplay |-> "false",
                 Hidden |-> "false", Terminal |-> "false"])
AppNoDisplay == Ini([Type |-> "Application", Exec |-> ExecVi, NoDisplay |-> "true"])
AppHidden == Ini([Type |-> "Application", Exec |-> ExecVi, Hidden |-> "true"])
LinkEntry == Ini([Type |-> "Link", Exec |-> ExecVi])
NoTypeEntry == Ini([Exec |-> ExecVi])
NoExecEntry == Ini([Type |-> "Application"])
\* a readable file with no [Desktop Entry] section, or a file that cannot be opened
NoSection == [kind |-> "nosection", fields |-> [Comment |-> "x"]]
\* a file configparser cannot parse
Malformed == [kind |-> "malformed", fields |-> [Comment |-> "x"]]

Contents == {AppPlain, AppTerminal, AppShown, AppNoDisplay, AppHidden,
             LinkEntry, NoTypeEntry, NoExecEntry, NoSection, Malformed}

BaseViUpper == <<"V", "i">> \o Desktop
BaseVi == <<"v", "i">> \o Desktop
BaseEd == <<"e", "d">> \o Desktop
BaseTxt == <<"e", "d", ".", "t", "x", "t">>

File(d, base, content) == [dir |-> d, base |-> base, content |-> content]

\* every file the environment may add while the scan alone is studied
ScanPool ==
    {File(d, b, c) : d \in Dirs, b \in {BaseViUpper, BaseVi, BaseEd}, c \in Contents}
    \cup {File(d, BaseTxt, AppPlain) : d \in Dirs}

\* the files the environment may add while whole runs are studied
RunPool ==
    {File(1, BaseViUpper, AppTerminal), File(2, BaseVi, AppPlain),
     File(2, BaseEd, AppShown), File(1, BaseEd, NoTypeEntry)}

\* the Exec strings drawn while the launcher is studied
ExecAlphabet == {"%", "f", "U", " ", "1"}

ExecVimTest == <<"v", "i", "m", " ", "%", "f", " ", "t", "e", "s", "t", ".", "t", "x", "t">>

ExecStrings == UNION {[1..n -> ExecAlphabet] : n \in 0..MaxLen} \cup {ExecVimTest}

\* one descriptor with any Exec string, run in a terminal or not
LaunchPool ==
    {File(2, BaseVi, Ini([Type |-> "Application", Exec |-> c, Terminal |-> t])) :
        c \in ExecStrings, t \in {"true", "false"}}

-----------------------------------------------------------------------------
(* parse_desktop_files and what it calls *)

\* glob(directory + "*desktop"): the matching files of one directory, as
\* [filename, content]; "*" matches no leading dot, a missing directory has
\* no files
Glob(d) ==
    {[filename |-> DIRS[d] \o f.base, content |-> f.content] :
        f \in {g \in files : /\ g.dir = d
                             /\ dirExists[d]
                             /\ EndsWith(g.base, Tail(Desktop))
                             /\ g.base[1] # "."}}

\* the orders in which a directory listing may come
Orders(S) ==
    {s \in [1..Cardinality(S) -> S] : \A i, j \in DOMAIN s : s[i] = s[j] => i = j}

\* what parse_file raises on a file: "none" when it returns
ParseFileRaises(f) ==
    CASE f.content.kind = "malformed" -> "ParsingError"
      [] f.content.kind = "nosection" -> "KeyError"
      [] OTHER -> "none"

parse_file(f) == f.content.fields @@ [filename |-> f.filename]

\* entry["Type"] raises KeyError when the entry has no Type
EntryVisibleRaises(entry) ==
    IF "Type" \in DOMAIN entry THEN "none" ELSE "KeyError"

entry_visible(entry) ==
    LET is_application == entry.Type = "Application"
        can_display == "NoDisplay" \notin DOMAIN entry \/ entry.NoDisplay = "false"
        not_hidden == "Hidden" \notin DOMAIN entry \/ entry.Hidden = "false"
    IN is_application /\ can_display /\ not_hidden

\* bytes(filename.split("/")[-1][0:-8].lower() + "\n", "ascii")
DisplayName(filename) == Lower(DropLast8(LastComponent(filename))) \o <<"\n">>

AppData(candidate) ==
    [command |-> candidate.Exec,
     terminal |-> "Terminal" \in DOMAIN candidate /\ candidate.Terminal = "true",
     path |-> IF "Path" \in DOMAIN candidate THEN candidate.Path ELSE HOME_DIR]

Raise(err, filename) == [raised |-> err, at |-> filename, value |-> <<>>]
Return(value) == [raised |-> "none", at |-> <<>>, value |-> value]

\* the catalog left in scan order
SortedSkipped(l) == l

\* sorted(results_list, key=lambda r: r[0]): a stable sort by name
RECURSIVE Sorted(_)
Sorted(l) ==
    IF l = <<>> THEN <<>>
    ELSE LET rest == Sorted(SubSeq(l, 1, Len(l) - 1))
             x == l[Len(l)]
             k == Cardinality({i \in DOMAIN rest : ~BytesLess(x[1], rest[i][1])})
         IN SubSeq(rest, 1, k) \o <<x>> \o SubSeq(rest, k + 1, Len(rest))

\* the candidates are made lazily (map, filter), so each file is parsed,
\* filtered and folded in before the next one is read
RECURSIVE ScanLoop(_, _, _, _)
ScanLoop(desktop_files, i, list, existing_names) ==
    IF i > Len(desktop_files) THEN Return(Sorted(list))
    ELSE LET f == desktop_files[i]
             entry == parse_file(f)
             name == DisplayName(entry.filename)
         IN IF ParseFileRaises(f) # "none"
                THEN Raise(ParseFileRaises(f), f.filename)
            ELSE IF EntryVisibleRaises(entry) # "none"
                THEN Raise(EntryVisibleRaises(entry), f.filename)
            ELSE IF ~entry_visible(entry)
                THEN ScanLoop(desktop_files, i + 1, list, existing_names)
            ELSE IF name \in existing_names
                THEN ScanLoop(desktop_files, i + 1, list, existing_names)
            ELSE IF "Exec" \notin DOMAIN entry
                THEN Raise("KeyError", f.filename)
            ELSE ScanLoop(desktop_files, i + 1,
                          Append(list, <<name, AppData(entry)>>),
                          existing_names \cup {name})

parse_desktop_files(desktop_files) == ScanLoop(desktop_files, 1, <<>>, {})

\* the directories chained last first
DesktopFilesReversed == {o2 \o o1 : o1 \in Orders(Glob(1)), o2 \in Orders(Glob(2))}

\* chain(*[glob(directory + "*desktop") for directory in DIRS]), in every
\* order the listings may come in
DesktopFiles == {o1 \o o2 : o1 \in Orders(Glob(1)), o2 \in Orders(Glob(2))}


-----------------------------------------------------------------------------
(* The cache file *)

\* the bytes pickle.dump writes for a catalog: its entries, then the STOP
\* opcode; a file cut short has a prefix of the entries and no STOP
Pickle(catalog) == [entries |-> catalog, stop |-> TRUE]

EmptyFile == [entries |-> <<>>, stop |-> FALSE]

\* pickle.load: raises on a stream that ends before STOP
PickleLoadRaises(data) == IF data.stop THEN "none" ELSE "EOFError"

PickleLoad(data) == data.entries

MaxOf(S) == CHOOSE m \in S : \A n \in S : n <= m

\* is_valid_cache: "hit", "miss", or the exception os.path.getmtime raises
\* on a directory that does not exist
is_valid_cache ==
    IF cache.exists
    THEN IF \E d \in Dirs : ~dirExists[d]
         THEN "FileNotFoundError"
         ELSE LET dirs_mtime == MaxOf({dirMtime[d] : d \in Dirs})
                  cache_mtime == cache.mtime
              IN IF cache_mtime >= dirs_mtime THEN "hit" ELSE "miss"
    ELSE "miss"

-----------------------------------------------------------------------------
(* Selection and launch *)

\* lookup: <<app_data>> of the first entry of that name, <<>> for None
lookup(list, name) ==
    LET hits == {i \in DOMAIN list : list[i][1] = name}
    IN IF hits = {} THEN <<>>
       ELSE <<list[CHOOSE i \in hits : \A j \in hits : i <= j][2]>>

\* re.sub("%[a-zA-Z] ?", "", s): leftmost matches, left to right, each
\* taking the space after the letter when there is one
RECURSIVE ReSubFrom(_, _)
ReSubFrom(s, i) ==
    IF i > Len(s) THEN <<>>
    ELSE IF s[i] = "%" /\ i + 1 <= Len(s) /\ IsAsciiLetter(s[i + 1])
        THEN IF i + 2 <= Len(s) /\ s[i + 2] = " "
             THEN ReSubFrom(s, i + 3)
             ELSE ReSubFrom(s, i + 2)
    ELSE <<s[i]>> \o ReSubFrom(s, i + 1)

\* the pattern without its optional space
RECURSIVE ReSubNoSpaceFrom(_, _)
ReSubNoSpaceFrom(s, i) ==
    IF i > Len(s) THEN <<>>
    ELSE IF s[i] = "%" /\ i + 1 <= Len(s) /\ IsAsciiLetter(s[i + 1])
        THEN ReSubNoSpaceFrom(s, i + 2)
    ELSE <<s[i]>> \o ReSubNoSpaceFrom(s, i + 1)

StripCodesKeepSpace(s) == ReSubNoSpaceFrom(s, 1)

StripCodes(s) == ReSubFrom(s, 1)

\* the selection taken as the command without trimming it
TypedUntrimmed(sel) == [command |-> sel, terminal |-> TRUE, path |-> HOME_DIR]

\* the application dict made for a selection that names no entry
Typed(sel) == [command |-> Strip(sel), terminal |-> TRUE, path |-> HOME_DIR]

\* the directories os.chdir can enter
ExistingPaths == {HOME_DIR, OptDir}

ExecArgv(app) ==
    LET command == StripCodes(app.command)
    IN IF app.terminal THEN <<TERMINAL, "-e", command>>
       ELSE <<"/bin/sh", "-c", command>>

\* what the user may type into dmenu
TypeAlphabet == {" ", "v", "i"}

TypedTexts == UNION {[1..n -> TypeAlphabet] : n \in 0..MaxTyped}

LsLa == <<" ", "l", "s", " ", "-", "l", "a", " ">>

\* what dmenu may print: nothing, one of the lines it was given, or the
\* typed text and a newline
SelectorOutputs(stdin, texts) ==
    {<<>>} \cup Range(stdin) \cup {t \o <<"\n">> : t \in texts}

-----------------------------------------------------------------------------
(* State *)

NoDmenu == [stdin |-> <<>>, closed |-> FALSE, exited |-> FALSE, stdout |-> <<>>]

Fresh == [cwd |-> <<"/">>, argv |-> <<>>, status |-> "none", error |-> "none"]

Init ==
    /\ files = {}
    /\ dirExists \in [Dirs -> BOOLEAN]
    /\ dirMtime = [d \in Dirs |-> 0]
    /\ cache = [exists |-> FALSE, mtime |-> 0, data |-> EmptyFile]
    /\ now = 0
    /\ pc = [p \in Procs |-> "start"]
    /\ valid = [p \in Procs |-> "none"]
    /\ results_list = [p \in Procs |-> <<>>]
    /\ dmenu = [p \in Procs |-> NoDmenu]
    /\ selection = [p \in Procs |-> <<>>]
    /\ application = [p \in Procs |-> <<>>]
    /\ proc = [p \in Procs |-> Fresh]

fsVars == <<files, dirExists, dirMtime>>
uiVars == <<dmenu, selection, application>>

Ended(p) == pc[p] \in {"exited", "replaced", "crashed"}

\* no invocation is under way
Quiet == \A p \in Procs : pc[p] = "start" \/ Ended(p)

-----------------------------------------------------------------------------
(* The environment *)

\* a descriptor file is created in a configured directory, which sets the
\* directory's modification time
AddFile(pool) ==
    /\ Quiet
    /\ Cardinality(files) < MaxFiles
    /\ \E f \in pool :
        /\ dirExists[f.dir]
        /\ \A g \in files : ~(g.dir = f.dir /\ g.base = f.base)
        /\ files' = files \cup {f}
        /\ dirMtime' = [dirMtime EXCEPT ![f.dir] = now]
    /\ UNCHANGED <<dirExists, cache, now, pc, valid, results_list, uiVars, proc>>

AddScanFile == AddFile(ScanPool)

AddRunFile == AddFile(RunPool)

AddLaunchFile == AddFile(LaunchPool)

\* the clock moves on
Tick ==
    /\ now < MaxTime
    /\ now' = now + 1
    /\ UNCHANGED <<fsVars, cache, pc, valid, results_list, uiVars, proc>>

-----------------------------------------------------------------------------
(* One invocation of the script, step by step *)

\* an exception nothing catches: the interpreter exits with status 1
Crash(p, err) ==
    /\ pc' = [pc EXCEPT ![p] = "crashed"]
    /\ proc' = [proc EXCEPT ![p].status = "1", ![p].error = err]

\* get_results_list, line 26: the call of is_valid_cache
CheckCache(p) ==
    /\ pc[p] = "start"
    /\ IF is_valid_cache \in {"hit", "miss"}
       THEN /\ valid' = [valid EXCEPT ![p] = is_valid_cache]
            /\ pc' = [pc EXCEPT ![p] = IF is_valid_cache = "hit" THEN "load" ELSE "scan"]
            /\ UNCHANGED proc
       ELSE /\ Crash(p, is_valid_cache)
            /\ UNCHANGED valid
    /\ UNCHANGED <<fsVars, cache, now, results_list, uiVars>>

\* get_results_list, line 27: pickle.load(open(CACHE_FILE, 'rb'))
LoadCache(p) ==
    /\ pc[p] = "load"
    /\ IF PickleLoadRaises(cache.data) = "none"
       THEN /\ results_list' = [results_list EXCEPT ![p] = PickleLoad(cache.data)]
            /\ pc' = [pc EXCEPT ![p] = "dmenu"]
            /\ UNCHANGED proc
       ELSE /\ Crash(p, PickleLoadRaises(cache.data))
            /\ UNCHANGED results_list
    /\ UNCHANGED <<fsVars, cache, now, valid, uiVars>>

\* get_results_list, line 29: results = parse_desktop_files()
ParseDesktopFiles(p) ==
    /\ pc[p] = "scan"
    /\ \E desktop_files \in DesktopFiles :
         LET r == parse_desktop_files(desktop_files)
         IN IF r.raised = "none"
            THEN /\ results_list' = [results_list EXCEPT ![p] = r.value]
                 /\ pc' = [pc EXCEPT ![p] = "open"]
                 /\ UNCHANGED proc
            ELSE /\ Crash(p, r.raised)
                 /\ UNCHANGED results_list
    /\ UNCHANGED <<fsVars, cache, now, valid, uiVars>>

\* get_results_list, line 30: open(CACHE_FILE, 'wb') creates or truncates
OpenCache(p) ==
    /\ pc[p] = "open"
    /\ cache' = [exists |-> TRUE, mtime |-> now, data |-> EmptyFile]
    /\ pc' = [pc EXCEPT ![p] = "dump"]
    /\ UNCHANGED <<fsVars, now, valid, results_list, uiVars, proc>>

\* get_results_list, line 30: the buffered writer flushes a full buffer
\* before the pickle is complete
FlushCache(p) ==
    /\ pc[p] = "dump"
    /\ \E k \in 1..(Len(results_list[p]) - 1) :
         cache' = [exists |-> TRUE, mtime |-> now,
                   data |-> [entries |-> SubSeq(results_list[p], 1, k), stop |-> FALSE]]
    /\ pc' = [pc EXCEPT ![p] = "close"]
    /\ UNCHANGED <<fsVars, now, valid, results_list, uiVars, proc>>

\* get_results_list, lines 30-31: the pickle is written out and the file closed
DumpCache(p) ==
    /\ pc[p] \in {"dump", "close"}
    /\ cache' = [exists |-> TRUE, mtime |-> now, data |-> Pickle(results_list[p])]
    /\ pc' = [pc EXCEPT ![p] = "dmenu"]
    /\ UNCHANGED <<fsVars, now, valid, results_list, uiVars, proc>>

\* lines 97-100: dmenu is started, given every name, and its stdin closed
SelectorWrite(p) ==
    /\ pc[p] = "dmenu"
    /\ dmenu' = [dmenu EXCEPT ![p] =
           [stdin |-> [i \in DOMAIN results_list[p] |-> results_list[p][i][1]],
            closed |-> TRUE, exited |-> FALSE, stdout |-> <<>>]]
    /\ pc' = [pc EXCEPT ![p] = "wait"]
    /\ UNCHANGED <<fsVars, cache, now, valid, results_list, selection, application, proc>>

\* line 101: dmenu.wait() returns when dmenu has printed its choice and exited
SelectorExits(p, texts) ==
    /\ pc[p] = "wait"
    /\ \E out \in SelectorOutputs(dmenu[p].stdin, texts) :
         dmenu' = [dmenu EXCEPT ![p].exited = TRUE, ![p].stdout = out]
    /\ pc' = [pc EXCEPT ![p] = "read"]
    /\ UNCHANGED <<fsVars, cache, now, valid, results_list, selection, application, proc>>

SelectorWait(p) == SelectorExits(p, TypedTexts \cup {LsLa})

\* the user picks one of the offered names, or nothing
SelectorPick(p) == SelectorExits(p, {})

\* lines 102-103: selection = dmenu.stdout.read()
SelectorRead(p) ==
    /\ pc[p] = "read"
    /\ selection' = [selection EXCEPT ![p] = dmenu[p].stdout]
    /\ pc' = [pc EXCEPT ![p] = "resolve"]
    /\ UNCHANGED <<fsVars, cache, now, valid, results_list, dmenu, application, proc>>

\* the test for an empty selection left out
ResolveNoExit(p) ==
    /\ pc[p] = "resolve"
    /\ application' = [application EXCEPT ![p] =
           IF lookup(results_list[p], selection[p]) = <<>>
           THEN <<Typed(selection[p])>>
           ELSE lookup(results_list[p], selection[p])]
    /\ pc' = [pc EXCEPT ![p] = "launch"]
    /\ UNCHANGED <<proc, fsVars, cache, now, valid, results_list, dmenu, selection>>

\* lines 105-114: exit(0) on an empty selection, else the entry or the typed command
Resolve(p) ==
    /\ pc[p] = "resolve"
    /\ IF selection[p] = <<>>
       THEN /\ pc' = [pc EXCEPT ![p] = "exited"]
            /\ proc' = [proc EXCEPT ![p].status = "0"]
            /\ UNCHANGED application
       ELSE /\ application' = [application EXCEPT ![p] =
                   IF lookup(results_list[p], selection[p]) = <<>>
                   THEN <<Typed(selection[p])>>
                   ELSE lookup(results_list[p], selection[p])]
            /\ pc' = [pc EXCEPT ![p] = "launch"]
            /\ UNCHANGED proc
    /\ UNCHANGED <<fsVars, cache, now, valid, results_list, dmenu, selection>>

\* lines 116-122: chdir, strip the % codes, execv
Launch(p) ==
    /\ pc[p] = "launch"
    /\ LET app == application[p][1]
       IN IF app.path \in ExistingPaths
          THEN /\ pc' = [pc EXCEPT ![p] = "replaced"]
               /\ proc' = [proc EXCEPT ![p].cwd = app.path, ![p].argv = ExecArgv(app)]
          ELSE Crash(p, "FileNotFoundError")
    /\ UNCHANGED <<fsVars, cache, now, valid, results_list, uiVars>>

\* the script is run again
Restart(p) ==
    /\ Ended(p)
    /\ pc' = [pc EXCEPT ![p] = "start"]
    /\ valid' = [valid EXCEPT ![p] = "none"]
    /\ results_list' = [results_list EXCEPT ![p] = <<>>]
    /\ dmenu' = [dmenu EXCEPT ![p] = NoDmenu]
    /\ selection' = [selection EXCEPT ![p] = <<>>]
    /\ application' = [application EXCEPT ![p] = <<>>]
    /\ proc' = [proc EXCEPT ![p] = Fresh]
    /\ UNCHANGED <<fsVars, cache, now>>

get_results_list(p) ==
    \/ CheckCache(p)
    \/ LoadCache(p)
    \/ ParseDesktopFiles(p)
    \/ OpenCache(p)
    \/ DumpCache(p)

Main(p) ==
    \/ get_results_list(p)
    \/ SelectorWrite(p)
    \/ SelectorWait(p)
    \/ SelectorRead(p)
    \/ Resolve(p)
    \/ Launch(p)

-----------------------------------------------------------------------------
(* Specifications *)

\* the script run again and again, one invocation at a time
Next == AddRunFile \/ Tick \/ Main(1) \/ Restart(1)

Spec == Init /\ [][Next]_vars

\* the first scan of any directory contents
NextScan == AddScanFile \/ CheckCache(1) \/ ParseDesktopFiles(1)

SpecScan == Init /\ [][NextScan]_vars

\* two invocations at once building the catalog
NextConc ==
    \/ AddRunFile
    \/ Tick
    \/ \E p \in Procs : get_results_list(p) \/ FlushCache(p)

SpecConc == Init /\ [][NextConc]_vars

\* one run that launches a descriptor with any Exec string
NextLaunch ==
    \/ (files = {} /\ AddLaunchFile)
    \/ CheckCache(1)
    \/ ParseDesktopFiles(1)
    \/ OpenCache(1)
    \/ DumpCache(1)
    \/ SelectorWrite(1)
    \/ SelectorPick(1)
    \/ SelectorRead(1)
    \/ Resolve(1)
    \/ Launch(1)

SpecLaunch == Init /\ [][NextLaunch]_vars


-----------------------------------------------------------------------------
(* What the claims speak of *)

Listed == UNION {Glob(d) : d \in Dirs}

NameOf(f) == DisplayName(f.filename)

\* f parses, has a Type and passes the three visibility rules
Shown(f) ==
    /\ f.content.kind = "ini"
    /\ "Type" \in DOMAIN f.content.fields
    /\ entry_visible(parse_file(f))

HasExec(f) == f.content.kind = "ini" /\ "Exec" \in DOMAIN f.content.fields

EntriesNamed(list, name) == {i \in DOMAIN list : list[i][1] = name}

\* the catalogs a scan of the directories as they are now may return
FreshCatalogs ==
    {parse_desktop_files(o).value :
        o \in {q \in DesktopFiles : parse_desktop_files(q).raised = "none"}}

\* strictly ascending names: sorted, and no name twice
IsSortedByName(list) ==
    \A i, j \in DOMAIN list : i < j => BytesLess(list[i][1], list[j][1])

\* position i of s lies in a token: "%", a letter, and the space after it if any
InToken(s, i) ==
    \/ s[i] = "%" /\ i < Len(s) /\ IsAsciiLetter(s[i + 1])
    \/ i > 1 /\ s[i - 1] = "%" /\ IsAsciiLetter(s[i])
    \/ i > 2 /\ s[i] = " " /\ IsAsciiLetter(s[i - 1]) /\ s[i - 2] = "%"

\* the characters of s outside every token, in order
OutsideTokens(s) ==
    LET keep == {i \in DOMAIN s : ~InToken(s, i)}
        nth(k) == CHOOSE i \in keep : Cardinality({j \in keep : j < i}) = k - 1
    IN [k \in 1..Cardinality(keep) |-> s[nth(k)]]

\* c is s without the white space at its two ends
IsTrimOf(c, s) ==
    \E a, b \in 0..Len(s) :
        /\ a + b <= Len(s)
        /\ c = SubSeq(s, a + 1, Len(s) - b)
        /\ \A i \in 1..a : IsSpace(s[i])
        /\ \A i \in (Len(s) - b + 1)..Len(s) : IsSpace(s[i])
        /\ c # <<>> => ~IsSpace(c[1]) /\ ~IsSpace(c[Len(c)])

-----------------------------------------------------------------------------
(* Claims *)

\* C1, as stated: when two listed files in different directories derive the
\* same displayName, the returned catalog has exactly one entry of that name,
\* with the launch data of a file of that name in the earlier directory.
C1_EarlierDirectoryWins ==
    pc[1] = "open" =>
        \A d1, d2 \in Dirs : \A f \in Glob(d1), g \in Glob(d2) :
            (d1 < d2 /\ NameOf(f) = NameOf(g)) =>
                /\ Cardinality(EntriesNamed(results_list[1], NameOf(f))) = 1
                /\ \E h \in Glob(d1) :
                     /\ NameOf(h) = NameOf(f)
                     /\ HasExec(h)
                     /\ lookup(results_list[1], NameOf(f)) = <<AppData(parse_file(h))>>

\* C1, amended: when two listed files in different directories derive the
\* same displayName and the one in the earlier directory passes the visibility
\* filter, the returned catalog has exactly one entry of that name, with the
\* launch data of a visible file of that name in the earliest directory that
\* has one, whatever the order of the listings.
C1_EarlierVisibleWins ==
    pc[1] = "open" =>
        \A d1, d2 \in Dirs : \A f \in Glob(d1), g \in Glob(d2) :
            (d1 < d2 /\ NameOf(f) = NameOf(g) /\ Shown(f)) =>
                LET having == {d \in Dirs : \E k \in Glob(d) :
                                   Shown(k) /\ NameOf(k) = NameOf(f)}
                    first == CHOOSE d \in having : \A e \in having : d <= e
                IN /\ Cardinality(EntriesNamed(results_list[1], NameOf(f))) = 1
                   /\ \E h \in Glob(first) :
                        /\ NameOf(h) = NameOf(f)
                        /\ Shown(h)
                        /\ HasExec(h)
                        /\ lookup(results_list[1], NameOf(f)) = <<AppData(parse_file(h))>>

\* a scan has returned with Vi.desktop (terminal, in DIRS[1]) and vi.desktop
\* (plain, in DIRS[2]) on disk
C1_BothDirectoriesHaveVi ==
    /\ pc[1] = "open"
    /\ File(1, BaseViUpper, AppTerminal) \in files
    /\ File(2, BaseVi, AppPlain) \in files
    /\ lookup(results_list[1], NameOf([filename |-> BaseVi])) = <<AppData(AppTerminal.fields)>>

\* C2: is_valid_cache reports valid exactly when the cache file exists and is
\* at least as new as every configured directory, and invalid when the file
\* is missing; no invocation ends inside the check, get_results_list loads on
\* valid and otherwise rescans and overwrites the cache with its catalog.
C2_CacheValidity ==
    /\ is_valid_cache = "hit" <=>
           (cache.exists /\ \A d \in Dirs : dirExists[d] /\ cache.mtime >= dirMtime[d])
    /\ ~cache.exists => is_valid_cache = "miss"
    /\ \A p \in Procs :
        /\ pc[p] = "crashed" => valid[p] # "none"
        /\ pc[p] = "load" => valid[p] = "hit"
        /\ pc[p] \in {"scan", "open", "dump"} => valid[p] = "miss"
        /\ (pc[p] = "dmenu" /\ valid[p] = "miss") => cache.data = Pickle(results_list[p])

C4_VisibleOnly ==
    /\ pc[1] = "open" =>
        \A f \in Listed :
            /\ (\A g \in Listed : NameOf(g) = NameOf(f) => ~Shown(g))
                  => EntriesNamed(results_list[1], NameOf(f)) = {}
            /\ (Shown(f) /\ HasExec(f)
                  /\ \A g \in Listed \ {f} : NameOf(g) = NameOf(f) => ~Shown(g))
                  => lookup(results_list[1], NameOf(f)) = <<AppData(parse_file(f))>>
    /\ pc[1] = "crashed" =>
        \E f \in Listed : f.content.kind # "ini" \/ ~HasExec(f)

\* C5: every catalog get_results_list returns, scanned or loaded from a cache
\* this program wrote, is in strictly ascending byte order of displayName.
C5_CatalogSorted ==
    \A p \in Procs :
        pc[p] \in {"open", "dump", "dmenu", "wait", "read", "resolve",
                   "launch", "exited", "replaced"}
            => IsSortedByName(results_list[p])

\* a run has loaded from the cache a catalog of two entries
C5_LoadedTwoEntries ==
    /\ pc[1] = "dmenu"
    /\ valid[1] = "hit"
    /\ Len(results_list[1]) >= 2

\* C6: no invocation aborts before it has started the selector.
C6_ScanNeverAborts ==
    \A p \in Procs : pc[p] = "crashed" => dmenu[p].closed

\* C7: of two invocations sharing the cache file, none fails to load a cache
\* cut short, each ends get_results_list with the catalog of a fresh scan, and
\* when both are done the cache file holds a complete catalog.
C7_NoCorruption ==
    /\ \A p \in Procs :
        /\ pc[p] = "crashed" => proc[p].error # "EOFError"
        /\ pc[p] = "dmenu" => results_list[p] \in FreshCatalogs
    /\ (\A p \in Procs : pc[p] = "dmenu") => cache.data = Pickle(cache.data.entries)

\* C8: after an empty selection the script exits with status 0 having changed
\* no directory and replaced no process; and a process is replaced only after
\* dmenu's stdin was closed, dmenu exited and a non-empty selection was read.
C8_EmptySelectionExits ==
    \A p \in Procs :
        /\ (dmenu[p].exited /\ dmenu[p].stdout = <<>>) =>
              /\ pc[p] \in {"read", "resolve", "exited"}
              /\ proc[p].cwd = Fresh.cwd
              /\ proc[p].argv = <<>>
        /\ pc[p] = "exited" => (proc[p].status = "0" /\ selection[p] = <<>>)
        /\ (pc[p] = "replaced" \/ proc[p].argv # <<>> \/ proc[p].cwd # Fresh.cwd) =>
              /\ dmenu[p].closed
              /\ dmenu[p].exited
              /\ selection[p] = dmenu[p].stdout
              /\ selection[p] # <<>>

\* a run has exited on an empty selection with a catalog on offer
C8_ExitedOnEmpty ==
    /\ pc[1] = "exited"
    /\ dmenu[1].stdin # <<>>
    /\ dmenu[1].stdout = <<>>

\* C9: the launch data of a non-empty selection is that of the first catalog
\* entry whose name equals it, and with no such entry it is the selection
\* trimmed of surrounding white space, in a terminal, in the home directory.
C9_SelectionResolved ==
    \A p \in Procs :
        application[p] # <<>> =>
            LET sel == selection[p]
                app == application[p][1]
                hits == EntriesNamed(results_list[p], sel)
            IN /\ sel # <<>>
               /\ IF hits # {}
                  THEN app = results_list[p][CHOOSE i \in hits : \A j \in hits : i <= j][2]
                  ELSE /\ IsTrimOf(app.command, sel)
                       /\ app.terminal
                       /\ app.path = HOME_DIR
               /\ sel = LsLa \o <<"\n">> => app.command = <<"l", "s", " ", "-", "l", "a">>
               /\ pc[p] = "replaced" => proc[p].cwd = app.path

\* " ls -la " was typed and launched
C9_TypedLsLa ==
    /\ pc[1] = "replaced"
    /\ selection[1] = LsLa \o <<"\n">>
    /\ results_list[1] # <<>>

\* C10: the last argument of execv is the command with every character that
\* lies in a token ("%", a letter, the space after it if any) removed and the
\* others kept in order, after [TERMINAL, "-e"] for a terminal entry and
\* ["/bin/sh", "-c"] otherwise; "vim %f test.txt" gives "vim test.txt".
C10_CodesStripped ==
    \A p \in Procs :
        pc[p] = "replaced" =>
            LET app == application[p][1]
                command == OutsideTokens(app.command)
            IN /\ proc[p].argv = IF app.terminal THEN <<TERMINAL, "-e", command>>
                                 ELSE <<"/bin/sh", "-c", command>>
               /\ app.command = ExecVimTest =>
                    command = <<"v", "i", "m", " ", "t", "e", "s", "t", ".", "t", "x", "t">>

\* "vim %f test.txt" was launched through the shell
C10_VimLaunched ==
    /\ pc[1] = "replaced"
    /\ application[1][1].command = ExecVimTest
    /\ proc[1].argv[1] = "/bin/sh"

=============================================================================
